---- MODULE Spec2Model ----
(***************************************************************************)
(* jinja2_component: the generic Jinja2 extension that compiles every      *)
(* registered component tag (ComponentExtension.parse) into a Scope node,  *)
(* and the host's execution of the emitted nodes at render time.           *)
(***************************************************************************)
EXTENDS Integers, Sequences, FiniteSets, TLC

VARIABLES
    components,     \* environment.components: tag name -> dataclass fields
    tokens,         \* the token stream of the template being compiled
    phase,          \* "source" | "compiled" | "rendering" | "rendered" | "compile_error" | "render_error"
    ast,            \* the compiled template body (sequence of nodes)
    error,          \* the exception that ended compile or render
    consumed,       \* stream position reached by the last compile
    factoryCalls,   \* every default_factory() invocation so far, in order
    stack,          \* render: the frames of the running render
    out,            \* render: the output of the running render
    renders,        \* number of renders started on the compiled template
    seen            \* per render, the component dict bound by each tag occurrence (by line)

vars == <<components, tokens, phase, ast, error, consumed, factoryCalls, stack, out, renders, seen>>

-----------------------------------------------------------------------------
(* Bounds of the model *)

MaxAttrs == 2       \* attribute pairs per tag occurrence in generated templates
MaxTokens == 4      \* length of the arbitrary run of tokens in a generated attribute list
MaxRenders == 2     \* renders of one compiled template
MaxDepth == 9       \* frames on the render stack before RecursionError

-----------------------------------------------------------------------------
(* Module constants of extension.py *)

TMP_COMPONENT_DICT_NAME == "__component"
COMPONENT_DICT_NAME == "component"
(* the item a schema without a template field does have *)
NAME_FIELD_NAME == "name"
TEMPLATE_FIELD_NAME == "template"
CHILDREN_FIELD_NAME == "children"
CHILDREN_MACRO_NAME == "children"

-----------------------------------------------------------------------------
(* Values of the host language.  One record shape for all of them:         *)
(*   t  the type, n  an integer payload (int value, object identity,       *)
(*   defining frame of a macro), s  a string payload, d  a dict's items,   *)
(*   b  a macro's body.                                                    *)

Val(t, n, s) == [t |-> t, n |-> n, s |-> s, d |-> <<>>, b |-> <<>>]
IntV(n) == Val("int", n, "")
StrV(s) == Val("str", 0, s)
NoneV == Val("none", 0, "")
Undefined(name) == Val("undefined", 0, name)
MISSING == Val("missing", 0, "")
DictV(f) == [t |-> "dict", n |-> 0, s |-> "", d |-> f, b |-> <<>>]
MacroV(name, frame, body) == [t |-> "macro", n |-> frame, s |-> name, d |-> <<>>, b |-> body]
FactoryV(name) == Val("factory", 0, name)
ObjV(id, name) == Val("object", id, name)
(* a raised exception travelling as a value: t is the class, s what it names *)
UndefinedErrorClass == "UndefinedError"
TypeErrorClass == "TypeError"
Raise(kind, name) == Val(kind, 0, name)
ErrorKind(v) == v.t
MethodV(name, self) == [t |-> "method", n |-> 0, s |-> name, d |-> self, b |-> <<>>]

IsUndefined(v) == v.t = "undefined"
IsRaise(v) == v.t \in {UndefinedErrorClass, TypeErrorClass}

-----------------------------------------------------------------------------
(* Errors *)

NoError == [kind |-> "", lineno |-> 0, name |-> ""]
TemplateSyntaxError(lineno, what) == [kind |-> "TemplateSyntaxError", lineno |-> lineno, name |-> what]
UnknownComponentError(tagName) == [kind |-> "UnknownComponentError", lineno |-> 0, name |-> tagName]
RenderError(kind, name) == [kind |-> kind, lineno |-> 0, name |-> name]

-----------------------------------------------------------------------------
(* The dataclasses of the test suite: dataclasses.fields() of each, in     *)
(* declaration order.                                                      *)

Field(name, default, factory) == [name |-> name, default |-> default, default_factory |-> factory]
Required(name) == Field(name, MISSING, MISSING)
Default(name, v) == Field(name, v, MISSING)
Factory(name, f) == Field(name, MISSING, FactoryV(f))

PaintTool ==
    << Required("paint_color"), Required("effect"), Default("default_color", StrV("red")),
       Factory("color_list", "build_color_list"), Default("size", IntV(10)),
       Factory("properties", "list"), Default("template", StrV("paint_tool.html")) >>

Page == << Required("children"), Required("title"), Default("template", StrV("page.html")) >>

Navigation == << Default("template", StrV("navigation.html")) >>

Article == << Required("children"), Default("template", StrV("article.html")) >>

(* its template, `{{ children() }}`, is loaded as childfree.html here, the   *)
(* loader holding the templates of all the tests at once                   *)
ComponentWithoutChildren == << Default("template", StrV("childfree.html")) >>

TemplatePathExpression == << Default("name", StrV("TemplatePathExpression")) >>

NoTemplateField == << Required("name") >>

Schemas ==
    [ PaintTool |-> PaintTool, Page |-> Page, Navigation |-> Navigation, Article |-> Article,
      ComponentWithoutChildren |-> ComponentWithoutChildren,
      TemplatePathExpression |-> TemplatePathExpression, NoTemplateField |-> NoTemplateField ]

(* ComponentEnvironment(classes): the registry handed to the extension.    *)
(* The tests create environments from classes with and without a template *)
(* field; creation never fails.                                            *)
ComponentEnvironment(classes) == classes

(* environment.components[tag_name] *)
lookup(registry, tag_name) ==
    IF tag_name \in DOMAIN registry
    THEN [err |-> NoError, cls |-> registry[tag_name]]
    ELSE [err |-> UnknownComponentError(tag_name), cls |-> <<>>]

(* the tag names the host dispatches to the extension *)
tags(registry) == DOMAIN registry

-----------------------------------------------------------------------------
(* Tokens of the host lexer *)

Tok(type, value) == [type |-> type, value |-> value, lit |-> NoneV, lineno |-> 1]
Lit(type, v) == [type |-> type, value |-> "", lit |-> v, lineno |-> 1]
EOF(lineno) == [type |-> "eof", value |-> "", lit |-> NoneV, lineno |-> lineno]

(* stream.current: the token at pos, the eof token once the stream is exhausted *)
Cur(stream, pos) ==
    IF pos <= Len(stream) THEN stream[pos]
    ELSE EOF(IF Len(stream) = 0 THEN 1 ELSE stream[Len(stream)].lineno)

(* stream.expect(type): the position after the token, or TemplateSyntaxError *)
expect(stream, pos, type) ==
    LET cur == Cur(stream, pos) IN
    IF cur.type = type
    THEN [err |-> NoError, tok |-> cur, pos |-> pos + 1]
    ELSE [err |-> TemplateSyntaxError(cur.lineno, "expected " \o type), tok |-> cur, pos |-> pos]

-----------------------------------------------------------------------------
(* Nodes *)

Const(value, lineno) == [k |-> "Const", value |-> value, lineno |-> lineno]
Name(name, ctx, lineno) == [k |-> "Name", name |-> name, ctx |-> ctx, lineno |-> lineno]
Getattr(node, attr, ctx) == [k |-> "Getattr", node |-> node, attr |-> attr, ctx |-> ctx]
Getitem(node, arg, ctx, lineno) == [k |-> "Getitem", node |-> node, arg |-> arg, ctx |-> ctx, lineno |-> lineno]
Pair(key, value, lineno) == [k |-> "Pair", key |-> key, value |-> value, lineno |-> lineno]
Dict(items, lineno) == [k |-> "Dict", items |-> items, lineno |-> lineno]
Call(node, args) == [k |-> "Call", node |-> node, args |-> args]
Assign(target, node, lineno) == [k |-> "Assign", target |-> target, node |-> node, lineno |-> lineno]
ExprStmt(node) == [k |-> "ExprStmt", node |-> node]
Macro(name, body) == [k |-> "Macro", name |-> name, args |-> <<>>, defaults |-> <<>>, body |-> body]
Include(template, ignore_missing, with_context) ==
    [k |-> "Include", template |-> template, ignore_missing |-> ignore_missing, with_context |-> with_context]
Scope(lineno, body) == [k |-> "Scope", lineno |-> lineno, body |-> body]
Output(node) == [k |-> "Output", node |-> node]

-----------------------------------------------------------------------------
(* parser.parse_expression(), for the expressions the templates use:       *)
(* a literal, or a name followed by .attr any number of times.             *)

RECURSIVE parse_postfix(_, _, _)
parse_postfix(stream, pos, node) ==
    LET Attribute(a) ==
            IF a.err # NoError THEN [err |-> a.err, node |-> node, pos |-> a.pos]
            ELSE parse_postfix(stream, a.pos, Getattr(node, a.tok.value, "load"))
    IN  IF Cur(stream, pos).type = "dot"
        THEN Attribute(expect(stream, pos + 1, "name"))
        ELSE [err |-> NoError, node |-> node, pos |-> pos]

parse_expression(stream, pos) ==
    LET cur == Cur(stream, pos) IN
    CASE cur.type \in {"integer", "string"} ->
            [err |-> NoError, node |-> Const(cur.lit, cur.lineno), pos |-> pos + 1]
      [] cur.type = "name" ->
            parse_postfix(stream, pos + 1, Name(cur.value, "load", cur.lineno))
      [] OTHER ->
            [err |-> TemplateSyntaxError(cur.lineno, "unexpected " \o cur.type),
             node |-> Const(NoneV, cur.lineno), pos |-> pos]

-----------------------------------------------------------------------------
(* ComponentExtension *)

(* f.default_factory(): a new object every time it is invoked *)
invoke(factory, calls, when) ==
    [value |-> ObjV(Len(calls) + 1, factory.s),
     calls |-> Append(calls, [factory |-> factory.s, when |-> when])]

pair_node_for_field(name, value, lineno) ==
    Pair(Const(StrV(name), lineno), Const(value, lineno), lineno)

(* initialize_items with the factory left to be called by the emitted code *)
RECURSIVE initialize_items_call(_, _, _, _, _)
initialize_items_call(fields, i, items, calls, lineno) ==
    IF i > Len(fields) THEN [items |-> items, calls |-> calls]
    ELSE LET f == fields[i] IN
         IF f.default # MISSING
         THEN initialize_items_call(fields, i + 1,
                                    Append(items, pair_node_for_field(f.name, f.default, lineno)),
                                    calls, lineno)
         ELSE IF f.default_factory # MISSING
         THEN initialize_items_call(fields, i + 1,
                                    Append(items, Pair(Const(StrV(f.name), lineno),
                                                       Call(Const(f.default_factory, lineno), <<>>),
                                                       lineno)),
                                    calls, lineno)
         ELSE initialize_items_call(fields, i + 1, items, calls, lineno)

(* the loop over dataclasses.fields(component_class), from field i on *)
RECURSIVE initialize_items(_, _, _, _, _)
initialize_items(fields, i, items, calls, lineno) ==
    IF i > Len(fields) THEN [items |-> items, calls |-> calls]
    ELSE LET f == fields[i] IN
         IF f.default # MISSING
         THEN initialize_items(fields, i + 1,
                               Append(items, pair_node_for_field(f.name, f.default, lineno)),
                               calls, lineno)
         ELSE IF f.default_factory # MISSING
         THEN LET made == invoke(f.default_factory, calls, "compile") IN
              initialize_items(fields, i + 1,
                               Append(items, pair_node_for_field(f.name, made.value, lineno)),
                               made.calls, lineno)
         ELSE initialize_items(fields, i + 1, items, calls, lineno)

(* _initialize_component_dict with None bound to every field without a default *)
_initialize_component_dict_none(component_class, lineno, calls) ==
    LET r == initialize_items(component_class, 1, <<>>, calls, lineno)
        bound == { r.items[i].key.value.s : i \in 1..Len(r.items) }
        rest == SelectSeq(component_class, LAMBDA f : f.name \notin bound)
        none == [i \in 1..Len(rest) |-> pair_node_for_field(rest[i].name, NoneV, lineno)]
    IN  [node |-> Assign(Name(TMP_COMPONENT_DICT_NAME, "store", lineno),
                         Dict(r.items \o none, lineno), lineno),
         calls |-> r.calls]

_initialize_component_dict(component_class, lineno, calls) ==
    LET r == initialize_items(component_class, 1, <<>>, calls, lineno) IN
    [node |-> Assign(Name(TMP_COMPONENT_DICT_NAME, "store", lineno), Dict(r.items, lineno), lineno),
     calls |-> r.calls]

(* the loop over the properties without the comma between two of them *)
RECURSIVE parse_properties_no_comma(_, _, _, _)
parse_properties_no_comma(stream, pos, items, lineno) ==
    LET fail(e, p, line) == [err |-> e, items |-> items, pos |-> p, lineno |-> line]
        Value(line, n, v) ==
            IF v.err # NoError THEN fail(v.err, v.pos, line)
            ELSE parse_properties_no_comma(stream, v.pos,
                                           Append(items, Pair(Const(StrV(n.tok.value), 0), v.node, 0)),
                                           line)
        Assigned(line, n, a) ==
            IF a.err # NoError THEN fail(a.err, a.pos, line)
            ELSE Value(line, n, parse_expression(stream, a.pos))
        Named(line, n) ==
            IF n.err # NoError THEN fail(n.err, n.pos, line)
            ELSE Assigned(line, n, expect(stream, n.pos, "assign"))
        Property(cur) ==
            IF cur.type = "block_end"
            THEN [err |-> NoError, items |-> items, pos |-> pos, lineno |-> lineno]
            ELSE Named(cur.lineno, expect(stream, pos, "name"))
    IN  Property(Cur(stream, pos))

(* the while loop over the tag's properties *)
RECURSIVE parse_properties(_, _, _, _)
parse_properties(stream, pos, items, lineno) ==
    LET fail(e, p, line) == [err |-> e, items |-> items, pos |-> p, lineno |-> line]
        Value(line, n, v) ==
            IF v.err # NoError THEN fail(v.err, v.pos, line)
            ELSE parse_properties(stream, v.pos,
                                  Append(items, Pair(Const(StrV(n.tok.value), 0), v.node, 0)),
                                  line)
        Assigned(line, n, a) ==
            IF a.err # NoError THEN fail(a.err, a.pos, line)
            ELSE Value(line, n, parse_expression(stream, a.pos))
        Named(line, n) ==
            IF n.err # NoError THEN fail(n.err, n.pos, line)
            ELSE Assigned(line, n, expect(stream, n.pos, "assign"))
        Separated(line, c) ==
            IF c.err # NoError THEN fail(c.err, c.pos, line)
            ELSE Named(line, expect(stream, c.pos, "name"))
        Property(cur) ==
            IF cur.type = "block_end"
            THEN [err |-> NoError, items |-> items, pos |-> pos, lineno |-> lineno]
            ELSE Separated(cur.lineno,
                           IF items # <<>> THEN expect(stream, pos, "comma")
                           ELSE [err |-> NoError, tok |-> cur, pos |-> pos])
    IN  Property(Cur(stream, pos))

(* update_component_dict with the pairs in reverse order *)
update_component_dict_reversed(component_dict_update_items) ==
    LET n == Len(component_dict_update_items) IN
    IF n > 0
    THEN << ExprStmt(Call(Getattr(Name(TMP_COMPONENT_DICT_NAME, "load", 0), "update", "load"),
                          << Dict([i \in 1..n |-> component_dict_update_items[n + 1 - i]], 0) >>)) >>
    ELSE << >>

(* `__component.update({...})`, when the tag has properties *)
update_component_dict(component_dict_update_items) ==
    IF component_dict_update_items # <<>>
    THEN << ExprStmt(Call(Getattr(Name(TMP_COMPONENT_DICT_NAME, "load", 0), "update", "load"),
                          << Dict(component_dict_update_items, 0) >>)) >>
    ELSE << >>

(* `component = __component` and `__component = None` *)
publish_component_dict(lineno) ==
    << Assign(Name(COMPONENT_DICT_NAME, "store", lineno),
              Name(TMP_COMPONENT_DICT_NAME, "load", lineno), lineno),
       Assign(Name(TMP_COMPONENT_DICT_NAME, "store", lineno), Const(NoneV, lineno), lineno) >>

(* prepare_component_dict with component rebound before the update *)
prepare_component_dict_early(initialize, component_dict_update_items, lineno) ==
    << initialize, publish_component_dict(lineno)[1] >>
        \o update_component_dict(component_dict_update_items)
        \o << publish_component_dict(lineno)[2] >>

prepare_component_dict(initialize, component_dict_update_items, lineno) ==
    << initialize >> \o update_component_dict(component_dict_update_items)
                     \o publish_component_dict(lineno)

children_macro_nodes(has_children, inner_block) ==
    IF has_children THEN << Macro(CHILDREN_MACRO_NAME, inner_block) >> ELSE << >>

include_tag(lineno) ==
    Include(Getitem(Name(COMPONENT_DICT_NAME, "load", lineno),
                    Const(StrV(TEMPLATE_FIELD_NAME), lineno), "load", lineno),
            FALSE, TRUE)

(* the body with the include ahead of the children macro *)
fragment_body_include_first(prepare, children, include) == prepare \o << include >> \o children

(* node.body = prepare_component_dict + children_macro_nodes + [include_tag, ] *)
fragment_body(prepare, children, include) == prepare \o children \o << include >>

(* the lookup made after the tag name has been consumed *)
lookup_failed_after_next(err, pos, calls) ==
    [err |-> err, nodes |-> <<>>, pos |-> pos + 1, calls |-> calls]

(* the lookup of the component class raises before the stream is advanced *)
lookup_failed(err, pos, calls) == [err |-> err, nodes |-> <<>>, pos |-> pos, calls |-> calls]

(* the fragment returned as a list of nodes, without a Scope around them *)
scope_node_flat(lineno, body) == body

(* node = nodes.Scope(lineno); node.body = ...; return node *)
scope_node(lineno, body) == << Scope(lineno, body) >>

field_names(component_class) == { component_class[i].name : i \in 1..Len(component_class) }

-----------------------------------------------------------------------------
(* ComponentExtension.parse and the host parser it calls back into.        *)
(* Results: err, the error raised (NoError if none); nodes, what parse     *)
(* returned (the host appends a node, extends by a list); pos, the stream  *)
(* position reached; calls, the factory invocations made so far.           *)

RECURSIVE parse(_, _, _, _)
RECURSIVE subparse(_, _, _, _, _, _)
RECURSIVE parse_statements(_, _, _, _, _)

parse(registry, stream, pos, calls) ==
    LET tag_name == Cur(stream, pos).value
        lineno == Cur(stream, pos).lineno
        Fragment(props, has_children, prepare, inner) ==
            IF inner.err # NoError
            THEN [err |-> inner.err, nodes |-> <<>>, pos |-> inner.pos, calls |-> inner.calls]
            ELSE [err |-> NoError,
                  nodes |-> scope_node(lineno,
                                fragment_body(prepare,
                                              children_macro_nodes(has_children, inner.body),
                                              include_tag(props.lineno))),
                  pos |-> inner.pos,
                  calls |-> inner.calls]
        Prepared(props, has_children, initialize) ==
            Fragment(props, has_children,
                     prepare_component_dict(initialize.node, props.items, props.lineno),
                     IF has_children
                     THEN parse_statements(registry, stream, props.pos, "end" \o tag_name,
                                           initialize.calls)
                     ELSE [err |-> NoError, body |-> <<>>, pos |-> props.pos,
                           calls |-> initialize.calls])
        Properties(component_class, has_children, props) ==
            IF props.err # NoError
            THEN [err |-> props.err, nodes |-> <<>>, pos |-> props.pos, calls |-> calls]
            ELSE Prepared(props, has_children,
                          _initialize_component_dict(component_class, props.lineno, calls))
        Found(found) ==
            IF found.err # NoError
            THEN lookup_failed(found.err, pos, calls)
            ELSE Properties(found.cls, CHILDREN_FIELD_NAME \in field_names(found.cls),
                            parse_properties(stream, pos + 1, <<>>, lineno))
    IN  Found(lookup(registry, tag_name))

(* Parser.subparse(end_tokens): data, {{ expr }} and {% tag %} until the   *)
(* end token (left current) or the end of the stream.                      *)
subparse(registry, stream, pos, end_token, calls, body) ==
    LET stop(e, p, c) == [err |-> e, body |-> body, pos |-> p, calls |-> c]
        next(p, c, b) == subparse(registry, stream, p, end_token, c, b)
        Closed(r, c) ==
            IF c.err # NoError THEN stop(c.err, c.pos, r.calls)
            ELSE next(c.pos, r.calls, body \o r.nodes)
        Parsed(r) ==
            IF r.err # NoError THEN stop(r.err, r.pos, r.calls)
            ELSE Closed(r, expect(stream, r.pos, "block_end"))
        Shown(e, c) ==
            IF c.err # NoError THEN stop(c.err, c.pos, calls)
            ELSE next(c.pos, calls, Append(body, Output(e.node)))
        Expression(e) ==
            IF e.err # NoError THEN stop(e.err, e.pos, calls)
            ELSE Shown(e, expect(stream, e.pos, "variable_end"))
        Statement(tag) ==
            IF tag.type = "name" /\ end_token # "" /\ tag.value = end_token
            THEN stop(NoError, pos + 1, calls)
            ELSE IF tag.type # "name"
            THEN stop(TemplateSyntaxError(tag.lineno, "tag name expected"), pos + 1, calls)
            ELSE IF tag.value \notin tags(registry)
            THEN stop(TemplateSyntaxError(tag.lineno, "unknown tag " \o tag.value), pos + 1, calls)
            ELSE Parsed(parse(registry, stream, pos + 1, calls))
        Token(cur) ==
            CASE cur.type = "eof" -> stop(NoError, pos, calls)
              [] cur.type = "data" ->
                    next(pos + 1, calls, Append(body, Output(Const(StrV(cur.value), cur.lineno))))
              [] cur.type = "variable_begin" -> Expression(parse_expression(stream, pos + 1))
              [] cur.type = "block_begin" -> Statement(Cur(stream, pos + 1))
              [] OTHER -> stop(TemplateSyntaxError(cur.lineno, "unexpected " \o cur.type), pos, calls)
    IN  Token(Cur(stream, pos))

(* parser.parse_statements(('name:end<Tag>',), drop_needle=True) *)
parse_statements(registry, stream, pos, end_token, calls) ==
    LET Body(r) ==
            IF r.err # NoError THEN r
            ELSE IF Cur(stream, r.pos).type = "eof"
            THEN [err |-> TemplateSyntaxError(Cur(stream, r.pos).lineno, "unexpected end of template"),
                  body |-> r.body, pos |-> r.pos, calls |-> r.calls]
            ELSE [err |-> NoError, body |-> r.body, pos |-> r.pos + 1, calls |-> r.calls]
        Begun(b) ==
            IF b.err # NoError
            THEN [err |-> b.err, body |-> <<>>, pos |-> b.pos, calls |-> calls]
            ELSE Body(subparse(registry, stream, b.pos, end_token, calls, <<>>))
    IN  Begun(expect(stream, pos, "block_end"))

(* environment.get_template(): the host parses the whole source *)
compile_template(registry, stream) == subparse(registry, stream, 1, "", <<>>, <<>>)

-----------------------------------------------------------------------------
(* The templates of the DictLoader, as the host compiles them.             *)

PrintAttr(attr) == Output(Getattr(Name(COMPONENT_DICT_NAME, "load", 1), attr, "load"))
CallChildren == Output(Call(Name(CHILDREN_MACRO_NAME, "load", 1), <<>>))
Data(text) == Output(Const(StrV(text), 1))

Loader ==
    "paint_tool.html" :> << PrintAttr("paint_color"), PrintAttr("effect"), PrintAttr("default_color"),
                            PrintAttr("color_list"), PrintAttr("size"), PrintAttr("properties") >>
    @@ "page.html" :> << PrintAttr("title"), CallChildren >>
    @@ "navigation.html" :> << Data("navigation") >>
    @@ "article.html" :> << PrintAttr("title"), CallChildren >>
    @@ "childfree.html" :> << CallChildren >>
    @@ "component.html" :> << Data("Component") >>

-----------------------------------------------------------------------------
(* The host's execution of the nodes.  A frame holds the statements being  *)
(* run, the names stored in it and its lexical parent (0: the context).    *)

Frame(kind, body, frameVars, parent, lineno) ==
    [kind |-> kind, body |-> body, pc |-> 1, vars |-> frameVars, parent |-> parent, lineno |-> lineno]

NoVars == [x \in {} |-> NoneV]

(* the attributes of a Python dict, which getattr() finds before the items *)
DictAttrs == {"update", "items", "keys", "values", "get", "pop", "copy", "clear",
              "setdefault", "popitem", "fromkeys"}

RECURSIVE Resolve(_, _, _)
Resolve(stk, idx, name) ==
    IF idx = 0 THEN Undefined(name)
    ELSE IF name \in DOMAIN stk[idx].vars THEN stk[idx].vars[name]
    ELSE Resolve(stk, stk[idx].parent, name)

(* the frame that holds name, 0 if none *)
RECURSIVE Holder(_, _, _)
Holder(stk, idx, name) ==
    IF idx = 0 THEN 0
    ELSE IF name \in DOMAIN stk[idx].vars THEN idx
    ELSE Holder(stk, stk[idx].parent, name)

RECURSIVE Visible(_, _)
Visible(stk, idx) ==
    IF idx = 0 THEN {} ELSE DOMAIN stk[idx].vars \cup Visible(stk, stk[idx].parent)

(* context.get_all() plus the local context an include passes on *)
dump_local_context(stk, idx) == [name \in Visible(stk, idx) |-> Resolve(stk, idx, name)]

(* environment.getattr(obj, attribute) *)
env_getattr(obj, attribute) ==
    CASE IsRaise(obj) -> obj
      [] IsUndefined(obj) -> Raise(UndefinedErrorClass, obj.s)
      [] obj.t = "dict" /\ attribute \in DictAttrs -> MethodV(attribute, obj.d)
      [] obj.t = "dict" /\ attribute \in DOMAIN obj.d -> obj.d[attribute]
      [] OTHER -> Undefined(attribute)

(* environment.getitem(obj, argument) *)
env_getitem(obj, argument) ==
    CASE IsRaise(obj) -> obj
      [] IsUndefined(obj) -> Raise(UndefinedErrorClass, obj.s)
      [] obj.t = "dict" /\ argument \in DOMAIN obj.d -> obj.d[argument]
      [] obj.t = "dict" /\ argument \in DictAttrs -> MethodV(argument, obj.d)
      [] OTHER -> Undefined(argument)

dict_update(d, delta) == [name \in DOMAIN d \cup DOMAIN delta |->
                            IF name \in DOMAIN delta THEN delta[name] ELSE d[name]]

(* Evaluation of an expression in frame idx: the value (a "raise" value if *)
(* it raises) and the factory invocations made so far.                     *)
RECURSIVE Eval(_, _, _, _)
RECURSIVE EvalItems(_, _, _, _, _, _)

Eval(stk, idx, e, calls) ==
    CASE e.k = "Const" -> [v |-> e.value, calls |-> calls]
      [] e.k = "Name" -> [v |-> Resolve(stk, idx, e.name), calls |-> calls]
      [] e.k = "Getattr" ->
            LET o == Eval(stk, idx, e.node, calls) IN
            [v |-> env_getattr(o.v, e.attr), calls |-> o.calls]
      [] e.k = "Getitem" ->
            LET o == Eval(stk, idx, e.node, calls)
                a == Eval(stk, idx, e.arg, o.calls)
            IN  [v |-> env_getitem(o.v, a.v.s), calls |-> a.calls]
      [] e.k = "Dict" -> EvalItems(stk, idx, e.items, 1, NoVars, calls)
      [] e.k = "Call" ->
            LET f == Eval(stk, idx, e.node, calls) IN
            CASE IsRaise(f.v) -> f
              [] IsUndefined(f.v) -> [v |-> Raise(UndefinedErrorClass, f.v.s), calls |-> f.calls]
              [] f.v.t = "factory" ->
                    LET made == invoke(f.v, f.calls, "render") IN
                    [v |-> made.value, calls |-> made.calls]
              [] OTHER -> [v |-> Raise(TypeErrorClass, "not callable"), calls |-> f.calls]

(* a dict display: the pairs in order, a later key replacing an earlier one *)
EvalItems(stk, idx, items, i, acc, calls) ==
    IF i > Len(items) THEN [v |-> DictV(acc), calls |-> calls]
    ELSE LET key == Eval(stk, idx, items[i].key, calls)
             val == Eval(stk, idx, items[i].value, key.calls)
         IN  IF IsRaise(val.v) THEN val
             ELSE EvalItems(stk, idx, items, i + 1,
                            dict_update(acc, [name \in {key.v.s} |-> val.v]), val.calls)

-----------------------------------------------------------------------------
(* Render steps *)

Top == Len(stack)
Running == phase = "rendering" /\ stack # <<>>
AtNode == Running /\ stack[Top].pc <= Len(stack[Top].body)
Node == stack[Top].body[stack[Top].pc]

Advance(stk) == [stk EXCEPT ![Len(stk)].pc = @ + 1]

(* str() of what an Output node prints: an undefined value prints as "" *)
to_string(v) == IF IsUndefined(v) THEN StrV("") ELSE v

Fail(kind, name, calls) ==
    /\ phase' = "render_error"
    /\ error' = RenderError(kind, name)
    /\ stack' = <<>>
    /\ factoryCalls' = calls
    /\ UNCHANGED <<components, tokens, ast, consumed, out, renders, seen>>

Continue(stk, calls) ==
    /\ stack' = stk
    /\ factoryCalls' = calls
    /\ UNCHANGED <<components, tokens, phase, ast, error, consumed, out, renders, seen>>

(* a new frame on the stack, RecursionError past the depth the host allows *)
Enter(frame, calls, bound) ==
    IF Len(stack) >= MaxDepth
    THEN Fail("RecursionError", "maximum recursion depth exceeded", calls)
    ELSE /\ stack' = Append(Advance(stack), frame)
         /\ factoryCalls' = calls
         /\ seen' = seen \o bound
         /\ UNCHANGED <<components, tokens, phase, ast, error, consumed, out, renders>>

StartRender ==
    /\ phase \in {"compiled", "rendered", "render_error"}
    /\ renders < MaxRenders
    /\ phase' = "rendering"
    /\ renders' = renders + 1
    /\ stack' = << Frame("root", ast, NoVars, 0, 0) >>
    /\ out' = <<>>
    /\ error' = NoError
    /\ UNCHANGED <<components, tokens, ast, consumed, factoryCalls, seen>>

ExecAssign ==
    /\ AtNode /\ Node.k = "Assign"
    /\ LET r == Eval(stack, Top, Node.node, factoryCalls)
           name == Node.target.name
           old == stack[Top].vars
       IN  IF IsRaise(r.v) THEN Fail(ErrorKind(r.v), r.v.s, r.calls)
           ELSE Continue(Advance([stack EXCEPT ![Top].vars =
                                     [x \in DOMAIN old \cup {name} |-> IF x = name THEN r.v ELSE old[x]]]),
                         r.calls)

(* `{% do expr %}`: a call of the update method of the dict a name holds   *)
(* changes that dict; any other expression is evaluated for its effects.   *)
ExecExprStmt ==
    /\ AtNode /\ Node.k = "ExprStmt"
    /\ LET call == Node.node
           callee == Eval(stack, Top, call.node, factoryCalls)
       IN  IF call.k = "Call" /\ callee.v.t = "method" /\ callee.v.s = "update"
           THEN LET arg == Eval(stack, Top, call.args[1], callee.calls)
                    name == call.node.node.name
                    holder == Holder(stack, Top, name)
                IN  IF IsRaise(arg.v) THEN Fail(ErrorKind(arg.v), arg.v.s, arg.calls)
                    ELSE Continue(Advance([stack EXCEPT ![holder].vars[name] =
                                              DictV(dict_update(@.d, arg.v.d))]),
                                  arg.calls)
           ELSE LET r == Eval(stack, Top, call, factoryCalls) IN
                IF IsRaise(r.v) THEN Fail(ErrorKind(r.v), r.v.s, r.calls)
                ELSE Continue(Advance(stack), r.calls)

ExecMacro ==
    /\ AtNode /\ Node.k = "Macro"
    /\ LET old == stack[Top].vars
           m == MacroV(Node.name, Top, Node.body)
       IN  Continue(Advance([stack EXCEPT ![Top].vars =
                                [x \in DOMAIN old \cup {Node.name} |-> IF x = Node.name THEN m ELSE old[x]]]),
                    factoryCalls)
    
ExecScope ==
    /\ AtNode /\ Node.k = "Scope"
    /\ Enter(Frame("scope", Node.body, NoVars, Top, Node.lineno), factoryCalls, <<>>)

ExecInclude ==
    /\ AtNode /\ Node.k = "Include"
    /\ LET t == Eval(stack, Top, Node.template, factoryCalls)
           context == IF Node.with_context THEN dump_local_context(stack, Top) ELSE NoVars
           bound == [render |-> renders, lineno |-> Node.template.lineno,
                     component |-> Resolve(stack, Top, COMPONENT_DICT_NAME),
                     tmp |-> Resolve(stack, Top, TMP_COMPONENT_DICT_NAME),
                     children |-> Resolve(stack, Top, CHILDREN_MACRO_NAME).t,
                     template |-> t.v]
       IN  CASE IsRaise(t.v) -> Fail(ErrorKind(t.v), t.v.s, t.calls)
             [] IsUndefined(t.v) -> Fail(UndefinedErrorClass, t.v.s, t.calls)
             [] t.v.t = "str" /\ t.v.s \in DOMAIN Loader ->
                    Enter(Frame("include", Loader[t.v.s], context, 0, Node.template.lineno),
                          t.calls, << bound >>)
             [] OTHER ->
                    IF Node.ignore_missing
                    THEN Continue(Advance(stack), t.calls)
                    ELSE Fail("TemplateNotFound", t.v.s, t.calls)

(* {{ expr }} and template data; a call of a macro runs its body in a new  *)
(* frame whose parent is the frame that defined the macro.                 *)
ExecOutput ==
    /\ AtNode /\ Node.k = "Output"
    /\ LET callee == Eval(stack, Top, Node.node.node, factoryCalls)
           r == Eval(stack, Top, Node.node, factoryCalls)
       IN  IF Node.node.k = "Call" /\ callee.v.t = "macro"
           THEN Enter(Frame("macro", callee.v.b, NoVars, callee.v.n, 0), callee.calls, <<>>)
           ELSE IF IsRaise(r.v) THEN Fail(ErrorKind(r.v), r.v.s, r.calls)
           ELSE /\ out' = Append(out, to_string(r.v))
                /\ stack' = Advance(stack)
                /\ factoryCalls' = r.calls
                /\ UNCHANGED <<components, tokens, phase, ast, error, consumed, renders, seen>>

LeaveFrame ==
    /\ Running /\ stack[Top].pc > Len(stack[Top].body)
    /\ stack' = SubSeq(stack, 1, Top - 1)
    /\ phase' = IF Top = 1 THEN "rendered" ELSE phase
    /\ UNCHANGED <<components, tokens, ast, error, consumed, factoryCalls, out, renders, seen>>

-----------------------------------------------------------------------------
(* Template sources, as token streams.  Every tag ends its line.           *)

RECURSIVE Lines(_, _, _)
Lines(stream, line, done) ==
    IF stream = <<>> THEN done
    ELSE Lines(Tail(stream),
               IF Head(stream).type = "block_end" THEN line + 1 ELSE line,
               Append(done, [Head(stream) EXCEPT !.lineno = line]))

WithLines(stream) == Lines(stream, 1, <<>>)

Attr(name, expr) == << Tok("name", name), Tok("assign", "=") >> \o expr

RECURSIVE AttrTokens(_)
AttrTokens(attrs) ==
    IF attrs = <<>> THEN <<>>
    ELSE IF Len(attrs) = 1 THEN attrs[1]
    ELSE attrs[1] \o << Tok("comma", ",") >> \o AttrTokens(Tail(attrs))

Open(tag, attrs) ==
    << Tok("block_begin", "{%"), Tok("name", tag) >> \o AttrTokens(attrs) \o << Tok("block_end", "%}") >>
Close(tag) == << Tok("block_begin", "{%"), Tok("name", "end" \o tag), Tok("block_end", "%}") >>
Text(s) == << Tok("data", s) >>
ComponentDot(attr) == << Tok("name", COMPONENT_DICT_NAME), Tok("dot", "."), Tok("name", attr) >>
Show(expr) == << Tok("variable_begin", "{{") >> \o expr \o << Tok("variable_end", "}}") >>

(* the attribute pairs the generated tags are written with *)
AttrPairs ==
    { Attr("size", << Lit("integer", IntV(15)) >>),
      Attr("size", << Lit("integer", IntV(7)) >>),
      Attr("paint_color", << Lit("string", StrV("green")) >>),
      Attr("title", << Lit("string", StrV("Jinja2")) >>),
      Attr("extra", ComponentDot("template")),
      Attr("template", << Lit("string", StrV("component.html")) >>) }

RECURSIVE SeqsUpTo(_, _)
SeqsUpTo(S, n) ==
    IF n = 0 THEN { <<>> }
    ELSE LET shorter == SeqsUpTo(S, n - 1) IN
         shorter \cup { Append(q, x) : q \in shorter, x \in S }

AttrLists(n) == SeqsUpTo(AttrPairs, n)

TitleAttr == << Attr("title", << Lit("string", StrV("Jinja2")) >>) >>

(* one tag, any attribute list *)
SingleTag(lists) ==
    { Open(tag, attrs) : tag \in {"PaintTool", "TemplatePathExpression"}, attrs \in lists }
    \cup { Open(tag, <<>>) : tag \in {"Navigation", "ComponentWithoutChildren", "NoTemplateField"} }

(* a tag inside the body of a Page, the body showing component.title before and after it *)
InnerTags(lists) ==
    { Open("Navigation", <<>>), Open("ComponentWithoutChildren", <<>>) }
    \cup { Open("PaintTool", attrs) : attrs \in lists }
    \cup { Open("Article", attrs) \o Text("text") \o Show(ComponentDot("title")) \o Close("Article") :
             attrs \in lists }

NestedTags(lists) ==
    { Open("Page", pattrs) \o Show(ComponentDot("title")) \o inner \o Show(ComponentDot("title"))
        \o Close("Page") : pattrs \in {<<>>, TitleAttr}, inner \in InnerTags(lists) }

(* test_nested_elements, and an Article followed by a childless sibling *)
NestedElements ==
    Text("<html>") \o Open("Page", TitleAttr) \o Open("Navigation", <<>>)
    \o Open("Article", << Attr("title", << Lit("string", StrV("AST Nodes")) >>) >>)
    \o Text("<ul>") \o Close("Article") \o Close("Page") \o Text("</html>")

Siblings ==
    Open("Article", <<>>) \o Show(ComponentDot("template")) \o Close("Article")
    \o Open("ComponentWithoutChildren", <<>>)

(* sources the compiler rejects *)
Rejected ==
    { Open("Page", TitleAttr) \o Text("text"),
      Open("Page", <<>>) \o Open("Article", <<>>) \o Close("Page"),
      Close("Page"),
      Open("PaintTool", << Attr("size", <<>>) >>) }

MainTemplates(n) ==
    { WithLines(t) : t \in SingleTag(AttrLists(n)) \cup NestedTags(AttrLists(n))
                           \cup {NestedElements, Siblings} \cup Rejected }

(* a tag name, up to two well-formed pairs, then any short run of          *)
(* attribute-list tokens, closed by the block end or cut off by the end of *)
(* the source                                                              *)
AttrAlphabet ==
    { Tok("name", "size"), Tok("assign", "="), Tok("comma", ","), Lit("integer", IntV(15)) }

SyntaxTags == {"PaintTool", "Navigation", "Unregistered"}

SizePair == Attr("size", << Lit("integer", IntV(15)) >>)

SyntaxPrefixes == { <<>>, SizePair, SizePair \o << Tok("comma", ",") >> \o SizePair }

SyntaxStreams(n) ==
    { WithLines(<< Tok("name", tag) >> \o prefix \o run \o closing) :
        tag \in SyntaxTags, prefix \in SyntaxPrefixes, run \in SeqsUpTo(AttrAlphabet, n),
        closing \in { << Tok("block_end", "%}") >>, <<>> } }

-----------------------------------------------------------------------------
(* Compilation *)

Start(stream) ==
    /\ components = ComponentEnvironment(Schemas)
    /\ tokens = stream
    /\ phase = "source"
    /\ ast = <<>>
    /\ error = NoError
    /\ consumed = 0
    /\ factoryCalls = <<>>
    /\ stack = <<>>
    /\ out = <<>>
    /\ renders = 0
    /\ seen = <<>>

Init == \E stream \in MainTemplates(MaxAttrs) : Start(stream)

InitSyntax == \E stream \in SyntaxStreams(MaxTokens) : Start(stream)

Compiled(r) ==
    /\ phase' = IF r.err = NoError THEN "compiled" ELSE "compile_error"
    /\ error' = r.err
    /\ consumed' = r.pos
    /\ factoryCalls' = r.calls
    /\ UNCHANGED <<components, tokens, stack, out, renders, seen>>

(* env.get_template(name): the host compiles the source, calling parse at each component tag *)
Compile ==
    /\ phase = "source"
    /\ LET r == compile_template(components, tokens) IN
       /\ Compiled(r)
       /\ ast' = IF r.err = NoError THEN r.body ELSE <<>>

(* ComponentExtension.parse called with the stream at a tag name *)
ParseTag ==
    /\ phase = "source"
    /\ LET r == parse(components, tokens, 1, factoryCalls) IN
       /\ Compiled(r)
       /\ ast' = r.nodes

Next ==
    \/ Compile
    \/ StartRender
    \/ ExecAssign
    \/ ExecExprStmt
    \/ ExecMacro
    \/ ExecScope
    \/ ExecInclude
    \/ ExecOutput
    \/ LeaveFrame

Spec == Init /\ [][Next]_vars

NextSyntax ==
    \/ ParseTag

SpecSyntax == InitSyntax /\ [][NextSyntax]_vars

-----------------------------------------------------------------------------
(* Reading the source: the component tags, their lines and the attribute   *)
(* pairs written on them.                                                  *)

IsTagStart(i) ==
    /\ i < Len(tokens)
    /\ tokens[i].type = "block_begin"
    /\ tokens[i + 1].type = "name"
    /\ tokens[i + 1].value \in DOMAIN components

TagStarts == { i \in 1..Len(tokens) : IsTagStart(i) }
TagLines == { tokens[i].lineno : i \in TagStarts }
TagOnLine(l) == tokens[(CHOOSE i \in TagStarts : tokens[i].lineno = l) + 1].value
ClassOnLine(l) == components[TagOnLine(l)]

AttrPositions(l) ==
    { i \in 1..(Len(tokens) - 1) :
        tokens[i].lineno = l /\ tokens[i].type = "name" /\ tokens[i + 1].type = "assign" }
AttrNames(l) == { tokens[i].value : i \in AttrPositions(l) }
LastAttr(l, name) ==
    CHOOSE i \in AttrPositions(l) :
        /\ tokens[i].value = name
        /\ \A j \in AttrPositions(l) : tokens[j].value = name => j <= i

(* the value of the expression written at attribute position i, component  *)
(* denoting the given binding                                              *)
AttrValue(i, component) ==
    IF tokens[i + 2].type \in {"integer", "string"} THEN tokens[i + 2].lit
    ELSE env_getattr(component, tokens[i + 4].value)

FieldNamed(cls, name) == cls[CHOOSE i \in 1..Len(cls) : cls[i].name = name]
ValueDefaults(cls) == { cls[i].name : i \in { j \in 1..Len(cls) : cls[j].default # MISSING } }
FactoryDefaults(cls) ==
    { cls[i].name : i \in { j \in 1..Len(cls) :
                              cls[j].default = MISSING /\ cls[j].default_factory # MISSING } }
NoDefaults(cls) == field_names(cls) \ (ValueDefaults(cls) \cup FactoryDefaults(cls))

(* the line of the innermost tag whose body holds the tag on line l, 0 if none *)
RECURSIVE EncloserFrom(_, _, _)
EncloserFrom(i, l, open) ==
    IF i >= Len(tokens) THEN 0
    ELSE IF tokens[i].type # "block_begin" THEN EncloserFrom(i + 1, l, open)
    ELSE IF tokens[i].lineno = l THEN (IF open = <<>> THEN 0 ELSE open[Len(open)])
    ELSE IF ~IsTagStart(i) THEN EncloserFrom(i + 1, l, SubSeq(open, 1, Len(open) - 1))
    ELSE IF CHILDREN_FIELD_NAME \in field_names(components[tokens[i + 1].value])
    THEN EncloserFrom(i + 1, l, Append(open, tokens[i].lineno))
    ELSE EncloserFrom(i + 1, l, open)

Encloser(l) == EncloserFrom(1, l, <<>>)

(* the binding the tag around seen[k] made before seen[k] was bound *)
EnclosingComponent(k) ==
    LET enc == Encloser(seen[k].lineno)
        before == { j \in 1..(k - 1) : seen[j].lineno = enc /\ seen[j].render = seen[k].render }
    IN  IF before = {} THEN Undefined(COMPONENT_DICT_NAME)
        ELSE seen[CHOOSE j \in before : \A i \in before : i <= j].component

-----------------------------------------------------------------------------
C2_DefaultsBound ==
    /\ \A k \in 1..Len(seen) :
          LET cls == ClassOnLine(seen[k].lineno)
              bound == seen[k].component
          IN  AttrNames(seen[k].lineno) = {} =>
                /\ bound.t = "dict"
                /\ DOMAIN bound.d = ValueDefaults(cls) \cup FactoryDefaults(cls)
                /\ \A name \in ValueDefaults(cls) : bound.d[name] = FieldNamed(cls, name).default
                /\ \A name \in FactoryDefaults(cls) :
                      /\ bound.d[name].t = "object"
                      /\ bound.d[name].s = FieldNamed(cls, name).default_factory.s
                      /\ bound.d[name].n \in 1..Len(factoryCalls)
                      /\ factoryCalls[bound.d[name].n].factory = bound.d[name].s
                /\ \A name \in NoDefaults(cls) : IsUndefined(env_getattr(bound, name))
    /\ tokens = WithLines(Open("PaintTool", <<>>)) =>
          /\ phase # "render_error"
          /\ phase = "rendered" =>
                out = << StrV(""), StrV(""), StrV("red"), ObjV(1, "build_color_list"),
                         IntV(10), ObjV(2, "list") >>

(* the tag of the schema with all three kinds of field, written without    *)
(* attributes, was rendered                                                *)
C2_Witness ==
    /\ tokens = WithLines(Open("PaintTool", <<>>))
    /\ phase = "rendered"
    /\ seen # <<>>

(* C3. Factory timing: compiling a tag occurrence invokes each default    *)
(* factory of its schema exactly once, in declaration order; no render     *)
(* invokes a factory; every render of the occurrence binds the field to    *)
(* the object made at compile unless an attribute names the field.         *)
FactoryCallsOf(cls) ==
    LET made == SelectSeq(cls, LAMBDA f : f.default = MISSING /\ f.default_factory # MISSING) IN
    [i \in 1..Len(made) |-> [factory |-> made[i].default_factory.s, when |-> "compile"]]

RECURSIVE ExpectedCallsFrom(_)
ExpectedCallsFrom(i) ==
    IF i > Len(tokens) THEN <<>>
    ELSE (IF IsTagStart(i) THEN FactoryCallsOf(components[tokens[i + 1].value]) ELSE <<>>)
         \o ExpectedCallsFrom(i + 1)

C3_FactoryAtCompileOnce ==
    /\ \A c \in 1..Len(factoryCalls) : factoryCalls[c].when = "compile"
    /\ phase \notin {"source", "compile_error"} => factoryCalls = ExpectedCallsFrom(1)
    /\ \A j, k \in 1..Len(seen) :
          seen[j].lineno = seen[k].lineno =>
            \A name \in FactoryDefaults(ClassOnLine(seen[k].lineno)) \ AttrNames(seen[k].lineno) :
                /\ seen[j].component.d[name] = seen[k].component.d[name]
                /\ seen[k].component.d[name].t = "object"
                /\ seen[k].component.d[name].n \in 1..Len(ExpectedCallsFrom(1))

(* a tag whose schema has factories was bound in two renders *)
C3_Witness ==
    \E j, k \in 1..Len(seen) :
        /\ seen[j].render < seen[k].render
        /\ seen[j].lineno = seen[k].lineno
        /\ FactoryDefaults(ClassOnLine(seen[k].lineno)) # {}
        /\ phase = "rendered"

(* C9. Emission order: the fragment of every tag is one scope whose body   *)
(* is the default bindings (fields in declaration order), the attribute    *)
(* rebindings (in source order), the rebinding of component, the children  *)
(* macro exactly when the schema has a children field, and one include as  *)
(* the last node; the include has ignore-missing off, passes the context   *)
(* and takes its target from component's template item when it runs, so   *)
(* a template attribute redirects it.                                      *)
RECURSIVE ScopesIn(_)
ScopesIn(body) ==
    IF body = <<>> THEN <<>>
    ELSE (CASE Head(body).k = "Scope" -> << Head(body) >> \o ScopesIn(Head(body).body)
            [] Head(body).k = "Macro" -> ScopesIn(Head(body).body)
            [] OTHER -> <<>>)
         \o ScopesIn(Tail(body))

DefaultNameSeq(cls) ==
    LET with == SelectSeq(cls, LAMBDA f : f.default # MISSING \/ f.default_factory # MISSING) IN
    [i \in 1..Len(with) |-> with[i].name]

AttrPositionSeq(l) ==
    SelectSeq([i \in 1..Len(tokens) |-> i], LAMBDA i : i \in AttrPositions(l))

ExpressionAt(i) ==
    IF tokens[i + 2].type \in {"integer", "string"} THEN Const(tokens[i + 2].lit, tokens[i].lineno)
    ELSE Getattr(Name(tokens[i + 2].value, "load", tokens[i].lineno), tokens[i + 4].value, "load")

Keys(items) == [i \in 1..Len(items) |-> items[i].key.value.s]

EmittedInOrder(sc) ==
    LET l == sc.lineno
        cls == ClassOnLine(l)
        at == AttrPositionSeq(l)
        u == IF at = <<>> THEN 0 ELSE 1
        m == IF CHILDREN_FIELD_NAME \in field_names(cls) THEN 1 ELSE 0
        b == sc.body
    IN  /\ Len(b) = 4 + u + m
        /\ b[1].k = "Assign" /\ b[1].target.name = "__component" /\ b[1].node.k = "Dict"
        /\ Keys(b[1].node.items) = DefaultNameSeq(cls)
        /\ \A i \in 1..Len(b[1].node.items) : b[1].node.items[i].value.k = "Const"
        /\ u = 1 =>
              /\ b[2].k = "ExprStmt" /\ b[2].node.k = "Call"
              /\ b[2].node.node = Getattr(Name("__component", "load", 0), "update", "load")
              /\ Keys(b[2].node.args[1].items) = [i \in 1..Len(at) |-> tokens[at[i]].value]
              /\ \A i \in 1..Len(at) : b[2].node.args[1].items[i].value = ExpressionAt(at[i])
        /\ b[2 + u].k = "Assign" /\ b[2 + u].target.name = "component"
        /\ b[2 + u].node.k = "Name" /\ b[2 + u].node.name = "__component"
        /\ b[3 + u].k = "Assign" /\ b[3 + u].target.name = "__component"
        /\ b[3 + u].node.k = "Const" /\ b[3 + u].node.value = NoneV
        /\ m = 1 => b[4 + u].k = "Macro" /\ b[4 + u].name = "children" /\ b[4 + u].args = <<>>
        /\ b[Len(b)].k = "Include"
        /\ ~b[Len(b)].ignore_missing /\ b[Len(b)].with_context
        /\ b[Len(b)].template.k = "Getitem"
        /\ b[Len(b)].template.node.k = "Name" /\ b[Len(b)].template.node.name = "component"
        /\ b[Len(b)].template.arg.k = "Const" /\ b[Len(b)].template.arg.value = StrV("template")

C9_EmissionOrder ==
    /\ phase \notin {"source", "compile_error"} =>
          /\ Len(ScopesIn(ast)) = Cardinality(TagStarts)
          /\ \A i \in 1..Len(ScopesIn(ast)) : EmittedInOrder(ScopesIn(ast)[i])
    /\ \A k \in 1..Len(seen) :
          LET l == seen[k].lineno IN
          /\ seen[k].template = env_getitem(seen[k].component, "template")
          /\ seen[k].template =
                IF "template" \in AttrNames(l)
                THEN AttrValue(LastAttr(l, "template"), EnclosingComponent(k))
                ELSE FieldNamed(ClassOnLine(l), "template").default
    /\ \A f \in 1..Len(stack) :
          stack[f].kind = "include" =>
            /\ {"component", "__component"} \subseteq DOMAIN stack[f].vars
            /\ stack[f].vars["component"].t = "dict"
            /\ AttrNames(stack[f].lineno) \subseteq DOMAIN stack[f].vars["component"].d
            /\ CHILDREN_FIELD_NAME \in field_names(ClassOnLine(stack[f].lineno)) =>
                  /\ "children" \in DOMAIN stack[f].vars
                  /\ stack[f].vars["children"].t = "macro"

(* the included template of a tag with attributes, a children field and a  *)
(* template attribute that redirects the include is running                *)
C9_Witness ==
    \E f \in 1..Len(stack) :
        /\ stack[f].kind = "include"
        /\ "template" \in AttrNames(stack[f].lineno)
        /\ CHILDREN_FIELD_NAME \in field_names(ClassOnLine(stack[f].lineno))
        /\ stack[f].body = Loader["component.html"]
        /\ FieldNamed(ClassOnLine(stack[f].lineno), "template").default # StrV("component.html")

(* C10. Staging: the bindings of a tag are collected under __component     *)
(* while component still denotes the enclosing binding, so (a) an          *)
(* attribute expression reading component.x in a tag inside another tag's  *)
(* body gets the enclosing component's x, never the tag's own x, and       *)
(* (b) whenever the children body or the included template of a tag runs,  *)
(* __component is None and component is the tag's complete binding.        *)
OwnerLine(f) ==
    IF stack[f].kind = "include" THEN stack[f].lineno
    ELSE IF stack[f].kind = "macro" /\ stack[f].parent > 0 THEN stack[stack[f].parent].lineno
    ELSE 0

LastBound(l) ==
    LET at == { k \in 1..Len(seen) : seen[k].lineno = l /\ seen[k].render = renders } IN
    seen[CHOOSE k \in at : \A j \in at : j <= k].component

C10_Staging ==
    /\ \A k \in 1..Len(seen) :
          \A i \in AttrPositions(seen[k].lineno) :
              (tokens[i + 2].type = "name" /\ i = LastAttr(seen[k].lineno, tokens[i].value)) =>
                /\ Encloser(seen[k].lineno) # 0
                /\ seen[k].component.d[tokens[i].value] =
                      env_getattr(EnclosingComponent(k), tokens[i + 4].value)
    /\ \A k \in 1..Len(seen) : seen[k].tmp = NoneV
    /\ \A f \in 1..Len(stack) :
          OwnerLine(f) # 0 =>
            /\ Resolve(stack, f, "__component") = NoneV
            /\ Resolve(stack, f, "component") = LastBound(OwnerLine(f))
            /\ DOMAIN Resolve(stack, f, "component").d =
                  ValueDefaults(ClassOnLine(OwnerLine(f)))
                    \cup FactoryDefaults(ClassOnLine(OwnerLine(f)))
                    \cup AttrNames(OwnerLine(f))

(* inside a Page, the included template of a tag that has its own template *)
(* default and an attribute reading component.template is running: the     *)
(* attribute holds the Page's template                                     *)
C10_Witness ==
    \E f \in 1..Len(stack) :
        /\ stack[f].kind = "include"
        /\ Encloser(stack[f].lineno) # 0
        /\ "extra" \in DOMAIN stack[f].vars["component"].d
        /\ stack[f].vars["component"].d["extra"] = StrV("page.html")
        /\ stack[f].vars["component"].d["template"] # StrV("page.html")
        /\ \E g \in 1..Len(stack) : stack[g].kind = "macro"

(* C6. Nesting and scoping: every tag is one scope; a tag binds its own    *)
(* component from its own defaults and attributes only; no step changes    *)
(* what component, __component or children denote in a frame other than    *)
(* the scope of the running tag, so after an inner tag has finished the    *)
(* enclosing body reads the binding it read before; output is in document  *)
(* order, the body of a tag printed where its template calls children().   *)
BodyShowsTitle ==
    /\ Len(tokens) > 4
    /\ tokens[2].value = "Page"
    /\ \E i \in 3..Len(tokens) :
          /\ tokens[i].type = "block_end"
          /\ \A j \in 3..(i - 1) : tokens[j].type # "block_end"
          /\ i < Len(tokens) /\ tokens[i + 1].type = "variable_begin"

PageTitle == IF "title" \in AttrNames(1) THEN AttrValue(LastAttr(1, "title"), NoneV) ELSE StrV("")

C6_OwnBinding ==
    /\ \A k \in 1..Len(seen) :
          DOMAIN seen[k].component.d =
              ValueDefaults(ClassOnLine(seen[k].lineno))
                \cup FactoryDefaults(ClassOnLine(seen[k].lineno))
                \cup AttrNames(seen[k].lineno)
    /\ (BodyShowsTitle /\ phase = "rendered") =>
          /\ Len(out) >= 3
          /\ out[1] = PageTitle /\ out[2] = PageTitle /\ out[Len(out)] = PageTitle
    /\ (tokens = WithLines(NestedElements) /\ phase \in {"rendered", "render_error"}) =>
          /\ phase = "rendered"
          /\ out = << StrV("<html>"), StrV("Jinja2"), StrV("navigation"), StrV("AST Nodes"),
                      StrV("<ul>"), StrV("</html>") >>
    /\ (tokens = WithLines(Siblings) /\ phase \in {"rendered", "render_error"}) =>
          /\ error = RenderError(UndefinedErrorClass, "children")
          /\ out = << StrV(""), StrV("article.html") >>

C6_FrameKeeps ==
    \A f \in 1..Len(stack) :
        (f <= Len(stack') /\ stack[f].kind # "scope") =>
            \A name \in {COMPONENT_DICT_NAME, TMP_COMPONENT_DICT_NAME, CHILDREN_MACRO_NAME} :
                Resolve(stack', f, name) = Resolve(stack, f, name)

C6_Scoping == [] C6_OwnBinding /\ [][C6_FrameKeeps]_vars

(* a Page without a title, whose body holds a tag that binds a title, was  *)
(* rendered: the body printed nothing for the title after the inner tag    *)
C6_Witness ==
    /\ BodyShowsTitle /\ phase = "rendered"
    /\ "title" \notin AttrNames(1)
    /\ \E k \in 1..Len(seen) :
          /\ Encloser(seen[k].lineno) = 1
          /\ "title" \in DOMAIN seen[k].component.d
    /\ out[Len(out)] = StrV("")

-----------------------------------------------------------------------------
(* The attribute list of a stream handed to parse: the tokens after the    *)
(* tag name, up to the closing delimiter if there is one.                  *)

Closed == \E i \in 2..Len(tokens) : tokens[i].type = "block_end"
ClosingAt == IF Closed THEN CHOOSE i \in 2..Len(tokens) :
                                /\ tokens[i].type = "block_end"
                                /\ \A j \in 2..(i - 1) : tokens[j].type # "block_end"
             ELSE Len(tokens) + 1
AttributeList == SubSeq(tokens, 2, ClosingAt - 1)

(* name = expression, name = expression, ... with single commas between *)
WellFormed(list) ==
    \/ list = <<>>
    \/ /\ Len(list) % 4 = 3
       /\ \A j \in 1..Len(list) :
             CASE j % 4 = 1 -> list[j].type = "name"
               [] j % 4 = 2 -> list[j].type = "assign"
               [] j % 4 = 3 -> list[j].type \in {"integer", "string", "name"}
               [] OTHER -> list[j].type = "comma"

PairCount(list) == (Len(list) + 1) \div 4

(* C7. Attribute-list syntax: parse accepts exactly the lists of zero or   *)
(* more name = expression pairs separated by single commas and followed    *)
(* by the closing delimiter, leaving the stream at that delimiter; for     *)
(* every other stream (no =, no comma between two pairs, a leading or a    *)
(* trailing comma, another token where a name is expected, the source      *)
(* ending before the delimiter) it ends with a TemplateSyntaxError that    *)
(* carries the line, returns no node and has invoked no factory.           *)
C7_AttributeSyntax ==
    (phase # "source" /\ tokens[1].value \in DOMAIN components) =>
        IF Closed /\ WellFormed(AttributeList)
        THEN /\ phase = "compiled" /\ error = NoError
             /\ Len(ast) = 1 /\ ast[1].k = "Scope"
             /\ consumed = ClosingAt
             /\ PairCount(AttributeList) = 0 => ast[1].body[2].k = "Assign"
             /\ PairCount(AttributeList) > 0 =>
                   /\ ast[1].body[2].k = "ExprStmt"
                   /\ Len(ast[1].body[2].node.args[1].items) = PairCount(AttributeList)
        ELSE /\ phase = "compile_error"
             /\ error.kind = "TemplateSyntaxError"
             /\ error.lineno = tokens[1].lineno
             /\ ast = <<>>
             /\ factoryCalls = <<>>

(* two pairs without a comma between them, closed, were rejected *)
C7_Witness ==
    /\ phase = "compile_error"
    /\ tokens[1].value = "PaintTool"
    /\ Closed
    /\ Len(AttributeList) = 6
    /\ WellFormed(SubSeq(AttributeList, 1, 3)) /\ WellFormed(SubSeq(AttributeList, 4, 6))

C4_ChildrenPresence ==
    /\ \A k \in 1..Len(seen) :
          IF CHILDREN_FIELD_NAME \in field_names(ClassOnLine(seen[k].lineno))
          THEN seen[k].children = "macro"
          ELSE seen[k].children = "undefined"
    /\ phase = "render_error" => error.kind # "RecursionError"

====
